---- MODULE Spec2Model ----
(***************************************************************************)
(* HamCode: a 20x20 matrix code carrying 16 chunks of Extended             *)
(* Hamming(16,11).  Model of hamcode_encoder.py and hamcode_decoder.py.    *)
(* Lists of the source are 0-based; codewords and grids are modelled as    *)
(* functions over 0..n-1 (g[r][c] is written g[r, c]), bit and byte lists as sequences (1-based).       *)
(***************************************************************************)
EXTENDS Integers, Sequences, FiniteSets

\* ---------------------------------------------------------------- constants
SIZE == 20
DATA_START == 4
DATA_POSITIONS == <<3, 5, 6, 7, 9, 10, 11, 12, 13, 14, 15>>
PARITY_POSITIONS == <<1, 2, 4, 8>>
CELL == 22
TOTAL == 176
MAX_BYTES == 21

Idx == 0 .. (SIZE - 1)
Pow2(n) == IF n = 0 THEN 1 ELSE IF n = 1 THEN 2 ELSE IF n = 2 THEN 4
           ELSE IF n = 3 THEN 8 ELSE IF n = 4 THEN 16 ELSE IF n = 5 THEN 32
           ELSE IF n = 6 THEN 64 ELSE 128
Truthy(b) == b # 0

\* A list built by a comprehension, evaluated once (the same function).
AsList(f) == [f EXCEPT ![0] = f[0]]

\* ---------------------------------------------------------------- grid
empty_grid == [r \in Idx, c \in Idx |-> FALSE]

\* clone_grid without the copy: the result is the argument object itself
clone_grid_alias(g) == [cells |-> g, alias |-> TRUE]

\* clone_grid returns a fresh list of fresh rows: the copy does not alias g.
clone_grid(g) == [cells |-> [r \in Idx, c \in Idx |-> g[r, c]], alias |-> FALSE]

\* apply_finder_overlay's writes without the marker at (1, 19)
finder_paint_nomarker(g) ==
  [r \in Idx, c \in Idx |->
     IF <<r, c>> \in {<<1, 3>>, <<3, 1>>, <<19, 1>>} THEN TRUE
     ELSE IF c = 2 /\ r >= 2 THEN TRUE
     ELSE IF r = 2 /\ c >= 2 THEN TRUE
     ELSE IF c = 0 THEN TRUE
     ELSE IF r = 0 THEN TRUE
     ELSE IF c < 4 THEN FALSE
     ELSE IF r < 4 THEN FALSE
     ELSE g[r, c]]

\* The writes of apply_finder_overlay on the local grid; each cell takes the
\* value of the last write of the function that touches it.
finder_paint(g) ==
  [r \in Idx, c \in Idx |->
     IF <<r, c>> \in {<<1, 3>>, <<3, 1>>, <<1, 19>>, <<19, 1>>} THEN TRUE
     ELSE IF c = 2 /\ r >= 2 THEN TRUE
     ELSE IF r = 2 /\ c >= 2 THEN TRUE
     ELSE IF c = 0 THEN TRUE
     ELSE IF r = 0 THEN TRUE
     ELSE IF c < 4 THEN FALSE
     ELSE IF r < 4 THEN FALSE
     ELSE g[r, c]]

\* Encoder's apply_finder_overlay.  cells: the returned grid; alias: whether
\* the returned object is the argument object; arg: the argument afterwards.
overlay_result(g, cl, painted) ==
  [cells |-> painted, alias |-> cl.alias,
   arg |-> IF cl.alias THEN painted ELSE g]

overlay_on_clone(g, cl) == overlay_result(g, cl, finder_paint(cl.cells))

apply_finder_overlay(g) == overlay_on_clone(g, clone_grid(g))

\* Decoder's copy of the same function.
dec_finder_paint(g) ==
  [r \in Idx, c \in Idx |->
     IF <<r, c>> \in {<<1, 3>>, <<3, 1>>, <<1, 19>>, <<19, 1>>} THEN TRUE
     ELSE IF c = 2 /\ r >= 2 THEN TRUE
     ELSE IF r = 2 /\ c >= 2 THEN TRUE
     ELSE IF c = 0 THEN TRUE
     ELSE IF r = 0 THEN TRUE
     ELSE IF c < 4 THEN FALSE
     ELSE IF r < 4 THEN FALSE
     ELSE g[r, c]]

dec_apply_finder_overlay(g) == dec_finder_paint(g)

is_in_finder(r, c) == r < 4 \/ c < 4

\* ---------------------------------------------------------------- bits
\* parity: XOR of the truth values of a list (a function over any index set).
parity(bits) == Cardinality({k \in DOMAIN bits : Truthy(bits[k])}) % 2

\* [cw[idx] for idx in range(1,16) if (idx & p) != 0], p a power of two
covered(cw, p) == [idx \in {i \in 1 .. 15 : (i \div p) % 2 = 1} |-> cw[idx]]

bytes_to_bits_msb(barr) ==
  [k \in 1 .. (8 * Len(barr)) |->
     (barr[((k - 1) \div 8) + 1] \div Pow2(7 - ((k - 1) % 8))) % 2]

\* bit at 0-based index idx, 0 beyond the end of the list
BitAt(bits, idx) == IF idx < Len(bits) /\ Truthy(bits[idx + 1]) THEN 1 ELSE 0

bits_to_bytes_msb(bits) ==
  LET n == (Len(bits) + 7) \div 8
  IN  [i \in 1 .. n |->
         LET o == (i - 1) * 8
         IN  128 * BitAt(bits, o) + 64 * BitAt(bits, o + 1)
             + 32 * BitAt(bits, o + 2) + 16 * BitAt(bits, o + 3)
             + 8 * BitAt(bits, o + 4) + 4 * BitAt(bits, o + 5)
             + 2 * BitAt(bits, o + 6) + BitAt(bits, o + 7)]

\* ---------------------------------------------------------------- Hamming
\* cw = [0]*16 with the data bits stored at DATA_POSITIONS
data_placed(data11) ==
  [idx \in 0 .. 15 |->
     IF \E i \in 1 .. 11 : DATA_POSITIONS[i] = idx
     THEN LET i == CHOOSE i \in 1 .. 11 : DATA_POSITIONS[i] = idx
          IN  IF Truthy(data11[i]) THEN 1 ELSE 0
     ELSE 0]

\* cw[p] = parity(covered)
with_parity(cw, p) == [cw EXCEPT ![p] = parity(covered(cw, p))]

\* the overall parity bit left at 0
with_overall_zero(cw) == [cw EXCEPT ![0] = 0]

\* cw[0] = parity(cw[1:16])
with_overall(cw) == [cw EXCEPT ![0] = parity([idx \in 1 .. 15 |-> cw[idx]])]

encode_chunk_11_to_16(data11) ==
  with_overall(with_parity(with_parity(with_parity(with_parity(
    data_placed(data11), PARITY_POSITIONS[1]), PARITY_POSITIONS[2]),
    PARITY_POSITIONS[3]), PARITY_POSITIONS[4]))

\* syndrome |= p for every failing check
syndrome_of(cw) ==
  (IF parity(covered(cw, PARITY_POSITIONS[1])) = 1 THEN PARITY_POSITIONS[1] ELSE 0)
  + (IF parity(covered(cw, PARITY_POSITIONS[2])) = 1 THEN PARITY_POSITIONS[2] ELSE 0)
  + (IF parity(covered(cw, PARITY_POSITIONS[3])) = 1 THEN PARITY_POSITIONS[3] ELSE 0)
  + (IF parity(covered(cw, PARITY_POSITIONS[4])) = 1 THEN PARITY_POSITIONS[4] ELSE 0)

\* the decision table without the corrections: errors are flagged, not fixed
chunk_verdict_nofix(cw_in, syndrome, overall) ==
  [ok |-> ~(overall = 0 /\ syndrome # 0),
   doubleError |-> overall = 0 /\ syndrome # 0,
   corrected |-> overall = 1,
   dataBits |-> [i \in 1 .. 11 |-> cw_in[DATA_POSITIONS[i]] % 2]]

\* the decision table of decode_chunk_16
chunk_verdict(cw_in, syndrome, overall) ==
  LET cw == IF overall = 1 /\ syndrome = 0
              THEN [cw_in EXCEPT ![0] = 1 - cw_in[0]]
            ELSE IF overall = 1 /\ syndrome # 0
              THEN [cw_in EXCEPT ![syndrome] = 1 - cw_in[syndrome]]
            ELSE cw_in
      corrected == overall = 1
      double_error == overall = 0 /\ syndrome # 0
  IN  [ok |-> ~double_error, doubleError |-> double_error,
       corrected |-> corrected,
       dataBits |-> [i \in 1 .. 11 |-> cw[DATA_POSITIONS[i]] % 2]]

decode_chunk_16(cw_in) ==
  chunk_verdict(cw_in, syndrome_of(cw_in), parity(cw_in))

\* ---------------------------------------------------------------- UTF-8
\* A text is a sequence of Unicode scalar values (a Python str).
\* str.encode('utf-8') of one code point
utf8_of_cp(cp) ==
  IF cp < 128 THEN <<cp>>
  ELSE IF cp < 2048 THEN <<192 + (cp \div 64), 128 + (cp % 64)>>
  ELSE IF cp < 65536
    THEN <<224 + (cp \div 4096), 128 + ((cp \div 64) % 64), 128 + (cp % 64)>>
  ELSE <<240 + (cp \div 262144), 128 + ((cp \div 4096) % 64),
         128 + ((cp \div 64) % 64), 128 + (cp % 64)>>

RECURSIVE utf8_encode(_)
utf8_encode(text) ==
  IF text = <<>> THEN <<>>
  ELSE utf8_of_cp(Head(text)) \o utf8_encode(Tail(text))

IsCont(b) == b >= 128 /\ b <= 191

\* bytes.decode('utf-8'), strict: ok = FALSE stands for UnicodeDecodeError.
RECURSIVE utf8_decode(_)
utf8_decode(bs) ==
  IF bs = <<>> THEN [ok |-> TRUE, text |-> <<>>]
  ELSE
    LET b0 == bs[1]
        n == IF b0 < 128 THEN 1
             ELSE IF b0 >= 194 /\ b0 <= 223 THEN 2
             ELSE IF b0 >= 224 /\ b0 <= 239 THEN 3
             ELSE IF b0 >= 240 /\ b0 <= 244 THEN 4
             ELSE 0
        lo2 == IF b0 = 224 THEN 160 ELSE IF b0 = 240 THEN 144 ELSE 128
        hi2 == IF b0 = 237 THEN 159 ELSE IF b0 = 244 THEN 143 ELSE 191
        wellFormed == /\ n > 0
                      /\ Len(bs) >= n
                      /\ n >= 2 => (bs[2] >= lo2 /\ bs[2] <= hi2)
                      /\ \A k \in 3 .. n : IsCont(bs[k])
        cp == IF n = 1 THEN b0
              ELSE IF n = 2 THEN (b0 - 192) * 64 + (bs[2] - 128)
              ELSE IF n = 3
                THEN (b0 - 224) * 4096 + (bs[2] - 128) * 64 + (bs[3] - 128)
              ELSE (b0 - 240) * 262144 + (bs[2] - 128) * 4096
                   + (bs[3] - 128) * 64 + (bs[4] - 128)
    IN  IF ~wellFormed THEN [ok |-> FALSE, text |-> <<>>]
        ELSE LET rest == utf8_decode(SubSeq(bs, n + 1, Len(bs)))
             IN  IF rest.ok THEN [ok |-> TRUE, text |-> <<cp>> \o rest.text]
                 ELSE [ok |-> FALSE, text |-> <<>>]

\* f"{b:02x}" as two code points
HexDigit(d) == IF d < 10 THEN 48 + d ELSE 87 + d
hex02(b) == <<HexDigit(b \div 16), HexDigit(b % 16)>>

RECURSIVE hex_join(_)
hex_join(bs) ==
  IF bs = <<>> THEN <<>>
  ELSE IF Len(bs) = 1 THEN hex02(bs[1])
  ELSE hex02(bs[1]) \o <<32>> \o hex_join(Tail(bs))

\* "(바이트 해석 오류) HEX: "
HEX_PREFIX == <<40, 48148, 51060, 53944, 32, 54644, 49437, 32, 50724, 47448,
                41, 32, 72, 69, 88, 58, 32>>

\* ---------------------------------------------------------------- encoder
\* bits padded with random draws up to TOTAL, then bits[:TOTAL]
pad_bits(bits0, rnd) ==
  SubSeq(IF Len(bits0) < TOTAL
         THEN bits0 \o SubSeq(rnd, 1, TOTAL - Len(bits0))
         ELSE bits0, 1, TOTAL)

\* chunks11 and cws of build_codewords_from_text
codewords_of_bits(bits) ==
  AsList([i \in 0 .. 15 |->
            encode_chunk_11_to_16(SubSeq(bits, i * 11 + 1, i * 11 + 11))])

\* the length check off by one
build_from_raw_22(raw, rnd) ==
  IF Len(raw) > MAX_BYTES + 1 THEN [raised |-> TRUE, cws |-> <<>>]
  ELSE [raised |-> FALSE,
        cws |-> codewords_of_bits(pad_bits(bytes_to_bits_msb(raw \o <<0>>), rnd))]

build_from_raw(raw, rnd) ==
  IF Len(raw) > MAX_BYTES THEN [raised |-> TRUE, cws |-> <<>>]
  ELSE [raised |-> FALSE,
        cws |-> codewords_of_bits(pad_bits(bytes_to_bits_msb(raw \o <<0>>), rnd))]

\* rnd: the successive results of random.getrandbits(1)
build_codewords_from_text(text, rnd) == build_from_raw(utf8_encode(text), rnd)

\* cell written by the encoder for bit b of chunk ch
place_cell(b, ch) ==
  LET region_row == b \div 4
      region_col == b % 4
      start_r == DATA_START + region_row * 4
      start_c == DATA_START + region_col * 4
      rr == ch \div 4
      cc == ch % 4
  IN  <<start_r + rr, start_c + cc>>

\* The nested loops of place_codewords_to_grid perform write k = 16*b + ch
\* in increasing k.  last_write[r][c] is the last write to hit the cell, or -1.
last_write ==
  [r \in Idx, c \in Idx |->
     LET ws == {k \in 0 .. 255 : place_cell(k \div 16, k % 16) = <<r, c>>}
     IN  IF ws = {} THEN -1 ELSE CHOOSE k \in ws : \A m \in ws : m <= k]

place_writes(g, cws) ==
  [r \in Idx, c \in Idx |->
     LET k == last_write[r, c]
     IN  IF k = -1 THEN g[r, c] ELSE Truthy(cws[k % 16][k \div 16])]

\* grid: the returned grid; base: the base argument after the call
place_result(ov, out) ==
  [grid |-> out, base |-> IF ov.alias THEN out ELSE ov.arg]

place_on_overlay(cws, ov) == place_result(ov, place_writes(ov.cells, cws))

place_codewords_to_grid(cws, base) ==
  place_on_overlay(cws, apply_finder_overlay(base))

\* ---------------------------------------------------------------- decoder
\* the decoder's mapping with region and chunk exchanged
extract_cell_swapped(b, ch) ==
  <<DATA_START + (ch \div 4) * 4 + (b \div 4), DATA_START + (ch % 4) * 4 + (b % 4)>>

\* the decoder's mapping starting one row and one column early
extract_cell_early(b, ch) ==
  <<DATA_START - 1 + (b \div 4) * 4 + (ch \div 4),
    DATA_START - 1 + (b % 4) * 4 + (ch % 4)>>

\* cell read by the decoder for bit b of chunk ch
extract_cell(b, ch) ==
  LET region_row == b \div 4
      region_col == b % 4
      start_r == DATA_START + region_row * 4
      start_c == DATA_START + region_col * 4
      rr == ch \div 4
      cc == ch % 4
  IN  <<start_r + rr, start_c + cc>>

extract_codewords_from_grid(g) ==
  [ch \in 0 .. 15 |-> [b \in 0 .. 15 |->
     LET rc == extract_cell(b, ch)
     IN  IF g[rc[1], rc[2]] THEN 1 ELSE 0]]

\* The loop of DecoderApp.decode from chunk i on.
RECURSIVE decode_loop(_, _, _, _)
\* the loop body without the early return
decode_step_goon(cws, i, data_bits, corrected_count, res) ==
  decode_loop(cws, i + 1, data_bits \o res.dataBits,
              IF res.corrected THEN corrected_count + 1 ELSE corrected_count)

\* the loop body setting the count instead of incrementing it
decode_step_single(cws, i, data_bits, corrected_count, res) ==
  IF ~res.ok
  THEN [rejected |-> TRUE, examined |-> i + 1, data_bits |-> <<>>,
        corrected_count |-> corrected_count]
  ELSE decode_loop(cws, i + 1, data_bits \o res.dataBits,
                   IF res.corrected THEN 1 ELSE corrected_count)

decode_step(cws, i, data_bits, corrected_count, res) ==
  IF ~res.ok
  THEN [rejected |-> TRUE, examined |-> i + 1, data_bits |-> <<>>,
        corrected_count |-> corrected_count]
  ELSE decode_loop(cws, i + 1, data_bits \o res.dataBits,
                   IF res.corrected THEN corrected_count + 1
                   ELSE corrected_count)

decode_loop(cws, i, data_bits, corrected_count) ==
  IF i = 16
  THEN [rejected |-> FALSE, examined |-> 16, data_bits |-> data_bits,
        corrected_count |-> corrected_count]
  ELSE decode_step(cws, i, data_bits, corrected_count, decode_chunk_16(cws[i]))

\* data_bytes.find(b'\x00')
find_nul(data_bytes) ==
  IF \E k \in 1 .. Len(data_bytes) : data_bytes[k] = 0
  THEN (CHOOSE k \in 1 .. Len(data_bytes) :
          data_bytes[k] = 0 /\ \A m \in 1 .. (k - 1) : data_bytes[m] # 0) - 1
  ELSE -1

\* the payload without the cut at the first NUL
payload_at_all(data_bytes, nul_idx) == data_bytes

\* payload of data_bytes: the bytes before the first NUL, or all of them
payload_at(data_bytes, nul_idx) ==
  IF nul_idx = -1 THEN data_bytes ELSE SubSeq(data_bytes, 1, nul_idx)

payload_of(data_bytes) == payload_at(data_bytes, find_nul(data_bytes))

\* payload.decode('utf-8'), or the hex dump when it raises
text_or_hex(payload, dec) ==
  IF dec.ok THEN dec.text ELSE HEX_PREFIX \o hex_join(payload)

text_of(payload) == text_or_hex(payload, utf8_decode(payload))

decode_outcome(lp, box) ==
  IF lp.rejected
  THEN [status |-> "rejected", examined |-> lp.examined, box |-> box]
  ELSE [status |-> "shown", examined |-> lp.examined,
        box |-> [shown |-> TRUE,
                 text |-> text_of(payload_of(bits_to_bytes_msb(lp.data_bits))),
                 corrected |-> lp.corrected_count]]

\* DecoderApp.decode on grid g with the result box holding box.
\* status: "rejected" (warning dialog, box untouched) or "shown".
decode(g, box) ==
  decode_outcome(decode_loop(extract_codewords_from_grid(g), 0, <<>>, 0), box)

\* ---------------------------------------------------------------- bounds
NumFills == 3
MaxStride == 1
MaxFlips == 2

\* ---------------------------------------------------------------- inputs
\* NUL, 'A', e-acute (2 bytes), Hangul HAN (3 bytes), an emoji (4 bytes)
Alphabet == {0, 65, 233, 54620, 128512}
Repeat(cp, n) == [k \in 1 .. n |-> cp]

\* Outcomes of random.getrandbits(1) during one encode: fill s is all zero
\* for s = 0, else a one at every s-th draw.
Fill(s) == [k \in 1 .. TOTAL |-> IF s # 0 /\ k % s = 0 THEN 1 ELSE 0]
Fills == {Fill(s) : s \in 0 .. (NumFills - 1)}

\* ---------------------------------------------------------------- state
VARIABLES
  entry,      \* EncoderApp.entry: the text typed
  lenLabel,   \* EncoderApp.len_label: byte count shown
  encGrid,    \* EncoderApp.grid
  encInfo,    \* "" | "done" (info label) | "error" (error dialog)
  decGrid,    \* DecoderApp.grid
  resultBox,  \* DecoderApp.result_box
  decStatus,  \* "idle" | "shown" | "rejected" (warning dialog)
  examined,   \* chunks examined by the last decode
  stage,      \* what the user does next
  plan,       \* the damage the user clicks into the decoder
  data11, cw, flipped, chunkRes,          \* one chunk through the codec
  cwsIn, gridA, gridB, outA, outB, extracted  \* inputs/outputs of pure calls

encVars == <<entry, lenLabel, encGrid, encInfo>>
decVars == <<decGrid, resultBox, decStatus, examined>>
userVars == <<stage, plan>>
chunkVars == <<data11, cw, flipped, chunkRes>>
pureVars == <<cwsIn, gridA, gridB, outA, outB, extracted>>
vars == <<encVars, decVars, userVars, chunkVars, pureVars>>

Unused == <<>>
EmptyBox == [shown |-> FALSE, text |-> <<>>, corrected |-> 0]
NoPlan == [cur |-> 0, bit |-> 0, stride |-> 0, n |-> 0]

\* EncoderApp.__init__ and DecoderApp.__init__
AppsConstructed ==
  /\ encGrid = apply_finder_overlay(empty_grid).cells
  /\ encInfo = ""
  /\ decGrid = dec_apply_finder_overlay(empty_grid)
  /\ resultBox = EmptyBox
  /\ decStatus = "idle"
  /\ examined = 0

ChunkIdle == data11 = Unused /\ cw = Unused /\ flipped = {} /\ chunkRes = Unused
PureIdle == /\ cwsIn = Unused /\ gridA = Unused /\ gridB = Unused
            /\ outA = Unused /\ outB = Unused /\ extracted = Unused

\* ---------------------------------------------------------------- handlers
\* EncoderApp._update_len after the user changed the entry to text
Type(text) ==
  /\ entry' = text
  /\ lenLabel' = Len(utf8_encode(text))
  /\ UNCHANGED <<encGrid, encInfo, decVars, chunkVars, pureVars>>

\* EncoderApp.encode
Encode ==
  \E rnd \in Fills :
    \E built \in {build_codewords_from_text(entry, rnd)} :
        /\ IF built.raised
           THEN encGrid' = encGrid /\ encInfo' = "error"
           ELSE /\ encGrid' = place_codewords_to_grid(built.cws, encGrid).grid
                /\ encInfo' = "done"
        /\ UNCHANGED <<entry, lenLabel, decVars, chunkVars, pureVars>>

\* DecoderApp.on_click on grid g with event at pixel (x, y): the grid after
on_click(g, x, y) ==
  LET c == x \div CELL
      r == y \div CELL
  IN  IF r < 0 \/ r >= SIZE \/ c < 0 \/ c >= SIZE THEN g
      ELSE IF r < 4 \/ c < 4 THEN g
      ELSE dec_apply_finder_overlay([g EXCEPT ![r, c] = ~g[r, c]])

OnClick(x, y) ==
  /\ decGrid' = on_click(decGrid, x, y)
  /\ UNCHANGED <<encVars, resultBox, decStatus, examined, chunkVars, pureVars>>

\* DecoderApp.reset
Reset ==
  /\ decGrid' = dec_apply_finder_overlay(empty_grid)
  /\ resultBox' = EmptyBox
  /\ UNCHANGED <<encVars, decStatus, examined, chunkVars, pureVars>>

\* DecoderApp.decode
Decode ==
  \E d \in {decode(decGrid, resultBox)} :
      /\ decStatus' = d.status
      /\ examined' = d.examined
      /\ resultBox' = d.box
      /\ UNCHANGED <<encVars, decGrid, chunkVars, pureVars>>

\* ---------------------------------------------------------------- Spec
\* Both applications side by side, handlers in any order.
PixelOf(k) == k * CELL + (CELL \div 2)
AppTexts == {<<>>, <<65>>, Repeat(65, MAX_BYTES + 1)}
\* pixels: left of the canvas, cells 0, 4, 5, 8 and right of the canvas
PixelsX == {-5, PixelOf(0), PixelOf(4), PixelOf(5), SIZE * CELL + 5}
PixelsY == {-5, PixelOf(0), PixelOf(4), PixelOf(8), SIZE * CELL + 5}

Init ==
  /\ entry = <<>>
  /\ lenLabel = 0
  /\ AppsConstructed
  /\ stage = "free" /\ plan = NoPlan
  /\ ChunkIdle
  /\ PureIdle

UserType == \E t \in AppTexts : Type(t) /\ UNCHANGED userVars
UserEncode == Encode /\ UNCHANGED userVars
UserClick == \E x \in PixelsX, y \in PixelsY : OnClick(x, y) /\ UNCHANGED userVars
UserReset == Reset /\ UNCHANGED userVars
UserDecode == Decode /\ UNCHANGED userVars

Next == UserType \/ UserEncode \/ UserClick \/ UserReset \/ UserDecode

Spec == Init /\ [][Next]_vars

\* ---------------------------------------------------------------- SpecPipe
\* One text through both programs: the user types it, encodes, copies the
\* picture into the decoder click by click, possibly mis-clicks, and decodes.
ByteLen(cp) == Len(utf8_of_cp(cp))
PipeTexts ==
  {<<>>, <<65, 0, 66>>, <<65, 233, 54620, 128512>>}
  \cup {<<cp>> : cp \in Alphabet}
  \cup {Repeat(cp, (MAX_BYTES \div ByteLen(cp)) + d) : cp \in Alphabet, d \in {0, 1}}
DamageTexts == {<<65, 0, 66>>, <<65, 233, 54620, 128512>>}

\* data cells, numbered row by row, where the decoder's grid differs from the
\* encoder's
Diff ==
  {k \in 0 .. (SIZE * SIZE - 1) :
     /\ ~is_in_finder(k \div SIZE, k % SIZE)
     /\ decGrid[k \div SIZE, k % SIZE] # encGrid[k \div SIZE, k % SIZE]}

\* bits of chunk ch whose cell differs
DiffBits(ch) ==
  {b \in 0 .. 15 :
     LET rc == place_cell(b, ch)
     IN  decGrid[rc[1], rc[2]] # encGrid[rc[1], rc[2]]}

InitPipe ==
  /\ entry \in PipeTexts
  /\ lenLabel = Len(utf8_encode(entry))
  /\ AppsConstructed
  /\ stage = "typed" /\ plan = NoPlan
  /\ ChunkIdle
  /\ PureIdle

PipeEncode ==
  /\ stage = "typed"
  /\ Encode
  /\ stage' = IF encInfo' = "done" THEN "copy" ELSE "failed"
  /\ UNCHANGED plan

\* the user clicks the first cell that still differs
PipeCopy ==
  /\ stage = "copy"
  /\ Diff # {}
  /\ LET k == CHOOSE k \in Diff : \A m \in Diff : k <= m
     IN  OnClick(PixelOf(k % SIZE), PixelOf(k \div SIZE))
  /\ UNCHANGED userVars

\* a click on the cell that holds bit b of chunk ch
ClickBit(b, ch) ==
  LET rc == place_cell(b, ch)
  IN  OnClick(PixelOf(rc[2]), PixelOf(rc[1]))

\* the first wrong click, once the copy is complete
Damage(strides) ==
  /\ stage = "copy"
  /\ Diff = {}
  /\ \E ch \in 0 .. 15, b \in 0 .. 15, st \in strides :
       /\ ClickBit(b, ch)
       /\ plan' = [cur |-> ch + 1, bit |-> (b + st) % 16, stride |-> st, n |-> 1]
  /\ stage' = "damaged"

PipeFlip == Damage({0})

PipeDecode ==
  /\ \/ stage = "copy" /\ Diff = {}
     \/ stage = "damaged"
  /\ Decode
  /\ stage' = "decoded"
  /\ UNCHANGED plan

NextPipe == PipeEncode \/ PipeCopy \/ PipeFlip \/ PipeDecode

SpecPipe == InitPipe /\ [][NextPipe]_vars

\* ---------------------------------------------------------------- SpecDamage
\* As SpecPipe, with one wrong click in each chunk of a run of chunks; the
\* bit hit advances by plan.stride from chunk to chunk.
InitDamage ==
  /\ entry \in DamageTexts
  /\ lenLabel = Len(utf8_encode(entry))
  /\ AppsConstructed
  /\ stage = "typed" /\ plan = NoPlan
  /\ ChunkIdle
  /\ PureIdle

DamageFirst == Damage(0 .. MaxStride)

DamageNext ==
  /\ stage = "damaged"
  /\ plan.cur < 16
  /\ ClickBit(plan.bit, plan.cur)
  /\ plan' = [plan EXCEPT !.cur = @ + 1, !.bit = (@ + plan.stride) % 16,
                          !.n = @ + 1]
  /\ UNCHANGED stage

NextDamage == PipeEncode \/ PipeCopy \/ DamageFirst \/ DamageNext \/ PipeDecode

SpecDamage == InitDamage /\ [][NextDamage]_vars

\* ---------------------------------------------------------------- SpecChunk
\* One 11-bit word through encode_chunk_11_to_16, a channel that flips up
\* to MaxFlips distinct bits, and decode_chunk_16.  No application runs.
AppsAbsent ==
  /\ entry = Unused /\ lenLabel = 0 /\ encGrid = Unused /\ encInfo = ""
  /\ decGrid = Unused /\ resultBox = EmptyBox /\ decStatus = "idle"
  /\ examined = 0 /\ plan = NoPlan

Words == [1 .. 11 -> {0, 1}]

InitChunk ==
  /\ AppsAbsent
  /\ stage = "word"
  /\ data11 \in Words
  /\ cw = Unused /\ flipped = {} /\ chunkRes = Unused
  /\ PureIdle

ChunkEncode ==
  /\ stage = "word"
  /\ cw' = encode_chunk_11_to_16(data11)
  /\ stage' = "coded"
  /\ UNCHANGED <<encVars, decVars, plan, data11, flipped, chunkRes, pureVars>>

ChunkFlip ==
  /\ stage = "coded"
  /\ Cardinality(flipped) < MaxFlips
  /\ \E j \in (0 .. 15) \ flipped :
       /\ cw' = [cw EXCEPT ![j] = 1 - @]
       /\ flipped' = flipped \cup {j}
  /\ UNCHANGED <<encVars, decVars, userVars, data11, chunkRes, pureVars>>

ChunkDecode ==
  /\ stage = "coded"
  /\ chunkRes' = decode_chunk_16(cw)
  /\ stage' = "chunkDecoded"
  /\ UNCHANGED <<encVars, decVars, plan, data11, cw, flipped, pureVars>>

NextChunk == ChunkEncode \/ ChunkFlip \/ ChunkDecode

SpecChunk == InitChunk /\ [][NextChunk]_vars

\* ---------------------------------------------------------------- SpecMap
\* place_codewords_to_grid on one codeword set and two base grids, then
\* extract_codewords_from_grid on the first result.
AllCells == Idx \X Idx
DataCells == (DATA_START .. (SIZE - 1)) \X (DATA_START .. (SIZE - 1))
Uniform(v) == [r \in Idx, c \in Idx |-> v]
Checker == [r \in Idx, c \in Idx |-> (r + c) % 2 = 0]

\* codeword sets: bit b0 of chunk ch0 differs from the background bg
OneHot(ch0, b0, bg) ==
  [ch \in 0 .. 15 |-> [b \in 0 .. 15 |-> IF ch = ch0 /\ b = b0 THEN 1 - bg ELSE bg]]
\* codeword sets the encoder builds
Built(text, s) == build_codewords_from_text(text, Fill(s)).cws
CwSets ==
  {OneHot(ch0, b0, bg) : ch0 \in 0 .. 15, b0 \in 0 .. 15, bg \in {0, 1}}
  \cup {Built(<<65, 233, 54620, 128512>>, s) : s \in 0 .. (NumFills - 1)}

Bases ==
  {empty_grid, Uniform(TRUE), Checker,
   place_codewords_to_grid(Built(Repeat(65, MAX_BYTES), 0), empty_grid).grid}

InitMap ==
  /\ AppsAbsent
  /\ ChunkIdle
  /\ stage = "given"
  /\ gridB \in Bases
  /\ gridA \in {empty_grid, gridB}
  /\ cwsIn \in CwSets
  /\ outA = Unused /\ outB = Unused /\ extracted = Unused

MapPlace ==
  /\ stage = "given"
  /\ outA' = place_codewords_to_grid(cwsIn, gridA)
  /\ outB' = place_codewords_to_grid(cwsIn, gridB)
  /\ stage' = "placed"
  /\ UNCHANGED <<encVars, decVars, plan, chunkVars, cwsIn, gridA, gridB, extracted>>

MapExtract ==
  /\ stage = "placed"
  /\ extracted' = extract_codewords_from_grid(outA.grid)
  /\ stage' = "extracted"
  /\ UNCHANGED <<encVars, decVars, plan, chunkVars, cwsIn, gridA, gridB, outA, outB>>

NextMap == MapPlace \/ MapExtract

SpecMap == InitMap /\ [][NextMap]_vars

\* ---------------------------------------------------------------- SpecFinder
\* DecoderApp.decode on two grids with the same data region.
\* g with the cells of set cs inverted
Inverted(g, cs) == [r \in Idx, c \in Idx |-> IF <<r, c>> \in cs THEN ~g[r, c] ELSE g[r, c]]
\* the data region of d inside the finder region of f
Framed(d, f) == [r \in Idx, c \in Idx |-> IF is_in_finder(r, c) THEN f[r, c] ELSE d[r, c]]

Encoded == place_codewords_to_grid(Built(<<65, 233, 54620, 128512>>, 1), empty_grid).grid
\* clean; one bit of chunk 2 wrong; two bits of chunk 5 wrong; undecodable bytes
DataRegions ==
  {Encoded,
   Inverted(Encoded, {place_cell(7, 2)}),
   Inverted(Encoded, {place_cell(3, 5), place_cell(9, 5)}),
   Uniform(TRUE)}
FinderCells == {rc \in AllCells : is_in_finder(rc[1], rc[2])}
Overlay == finder_paint(empty_grid)
Finders ==
  {Overlay, Uniform(FALSE), Uniform(TRUE), Checker}
  \cup {Inverted(Overlay, {rc}) : rc \in FinderCells}

InitFinder ==
  /\ AppsAbsent
  /\ ChunkIdle
  /\ stage = "given"
  /\ cwsIn = Unused /\ extracted = Unused
  /\ \E d \in DataRegions :
       /\ gridA \in {Framed(d, f) : f \in {Overlay, Uniform(TRUE)}}
       /\ gridB \in {Framed(d, f) : f \in Finders}
  /\ outA = Unused /\ outB = Unused

DecodeBoth ==
  /\ stage = "given"
  /\ outA' = decode(gridA, EmptyBox)
  /\ outB' = decode(gridB, EmptyBox)
  /\ stage' = "decodedBoth"
  /\ UNCHANGED <<encVars, decVars, plan, chunkVars, cwsIn, gridA, gridB, extracted>>

NextFinder == DecodeBoth

SpecFinder == InitFinder /\ [][NextFinder]_vars

\* ================================================================ claims
NoNul(text) == \A k \in 1 .. Len(text) : text[k] # 0
BlackData(g) == {rc \in DataCells : g[rc[1], rc[2]]}

\* C1 (SpecChunk): whatever the 11-bit word, a codeword with exactly two
\* distinct bits flipped (bit 0 included) decodes with overall parity 0 and a
\* nonzero syndrome, hence doubleError = TRUE and ok = FALSE.
C1_DoubleBitDetected ==
  (stage = "chunkDecoded" /\ Cardinality(flipped) = 2)
    => /\ chunkRes.doubleError
       /\ ~chunkRes.ok
       /\ parity(cw) = 0
       /\ syndrome_of(cw) # 0

C1_Witness ==
  /\ stage = "chunkDecoded"
  /\ flipped = {0, 5}
  /\ data11 = <<1, 0, 1, 1, 0, 0, 1, 0, 1, 1, 1>>
  /\ chunkRes.doubleError

\* Outcome of a decode that recovered the text typed into the encoder
RecoveredText ==
  /\ decStatus = "shown"
  /\ resultBox.shown
  /\ resultBox.text = entry

\* C2 as stated (SpecPipe): for every encodable text, one wrong cell in the
\* copied grid still decodes to that text with at least one corrected chunk.
C2_Original ==
  (stage = "decoded" /\ Cardinality(Diff) = 1)
    => (RecoveredText /\ resultBox.corrected >= 1)

\* C2 amended (SpecPipe): the same for every encodable text without U+0000.
C2_SingleBitResilience ==
  (stage = "decoded" /\ Cardinality(Diff) = 1 /\ NoNul(entry))
    => (RecoveredText /\ resultBox.corrected >= 1)

C2_Witness ==
  /\ stage = "decoded"
  /\ Cardinality(Diff) = 1
  /\ entry = <<65, 233, 54620, 128512>>
  /\ DiffBits(1) = {3}
  /\ RecoveredText
  /\ resultBox.corrected = 1

\* C3 (SpecPipe): a text of 0..21 UTF-8 bytes without NUL, encoded with any
\* filler and copied faithfully, decodes to itself with no chunk corrected.
C3_RoundTrip ==
  (stage = "decoded" /\ Diff = {} /\ encInfo = "done" /\ NoNul(entry))
    => (RecoveredText /\ resultBox.corrected = 0 /\ examined = 16)

C3_Witness ==
  /\ stage = "decoded"
  /\ Diff = {}
  /\ entry = <<65>>
  /\ BlackData(encGrid) # BlackData(place_codewords_to_grid(Built(<<65>>, 0), empty_grid).grid)
  /\ RecoveredText
  /\ resultBox.corrected = 0

\* C4 (Spec): an Encode of more than 21 UTF-8 bytes raises the error and
\* leaves the encoder's grid as it was; an Encode of 0..21 bytes succeeds.
\* (The steps that change nothing but the encoder's grid and status are the
\* Encode steps.)
EncodeStep ==
  /\ UNCHANGED <<decVars, userVars, entry, lenLabel>>
  /\ <<encGrid, encInfo>>' # <<encGrid, encInfo>>

C4_TooLargeLeavesGrid ==
  [][EncodeStep
       => IF Len(utf8_encode(entry)) > MAX_BYTES
          THEN encGrid' = encGrid /\ encInfo' = "error"
          ELSE encInfo' = "done"]_vars

C4_Witness ==
  /\ encInfo = "error"
  /\ Len(utf8_encode(entry)) = MAX_BYTES + 1
  /\ BlackData(encGrid) # {}

\* C5 (Spec): in every state, every cell with row < 4 or column < 4 of the
\* encoder's and of the decoder's grid has the finder value: row 0, column 0,
\* row 2 from column 2, column 2 from row 2 and the four markers black, the
\* rest white.
FinderValue(r, c) ==
  \/ r = 0
  \/ c = 0
  \/ r = 2 /\ c >= 2
  \/ c = 2 /\ r >= 2
  \/ <<r, c>> \in {<<1, 3>>, <<3, 1>>, <<1, 19>>, <<19, 1>>}

C5_FinderRegion ==
  \A rc \in FinderCells :
    /\ encGrid[rc[1], rc[2]] = FinderValue(rc[1], rc[2])
    /\ decGrid[rc[1], rc[2]] = FinderValue(rc[1], rc[2])

C5_Witness ==
  /\ encInfo = "done"
  /\ BlackData(encGrid) # {}
  /\ BlackData(decGrid) = {<<4, 4>>, <<8, 5>>}
  /\ decStatus = "rejected"

\* C6 (SpecMap): extracting what was placed gives back the sixteen codewords,
\* and encoder and decoder both use the map (b, ch) -> (4 + 4*(b div 4) +
\* ch div 4, 4 + 4*(b mod 4) + ch mod 4), one-to-one onto the data cells.
MapCell(b, ch) == <<4 + 4 * (b \div 4) + (ch \div 4), 4 + 4 * (b % 4) + (ch % 4)>>
BitChunk == (0 .. 15) \X (0 .. 15)
MapIsBijection ==
  /\ \A w \in BitChunk : /\ place_cell(w[1], w[2]) = MapCell(w[1], w[2])
                         /\ extract_cell(w[1], w[2]) = MapCell(w[1], w[2])
  /\ {MapCell(w[1], w[2]) : w \in BitChunk} = DataCells
  /\ Cardinality(DataCells) = Cardinality(BitChunk)

C6_ExtractInvertsPlace ==
  (stage = "extracted") => (extracted = cwsIn /\ MapIsBijection)

C6_Witness ==
  /\ stage = "extracted"
  /\ cwsIn = OneHot(6, 9, 0)
  /\ BlackData(outA.grid) = {<<13, 10>>}
  /\ extracted = cwsIn

\* C8 (SpecMap): placing writes each data cell exactly once, so the result is
\* the same for any two base grids, and neither base grid is modified.
EachDataCellOnce ==
  \A rc \in DataCells :
    Cardinality({w \in BitChunk : place_cell(w[1], w[2]) = rc}) = 1

C8_FullOverwrite ==
  (stage \in {"placed", "extracted"})
    => /\ outA.grid = outB.grid
       /\ outA.base = gridA
       /\ outB.base = gridB
       /\ EachDataCellOnce

C8_Witness ==
  /\ stage = "placed"
  /\ gridA = empty_grid
  /\ gridB = Uniform(TRUE)
  /\ cwsIn = OneHot(0, 0, 0)
  /\ outA.grid = outB.grid
  /\ outB.base = Uniform(TRUE)

\* C9 (SpecFinder): two grids that agree on every cell with row >= 4 and
\* column >= 4 decode to the same outcome: verdict, text and corrected count.
SameData(g1, g2) == \A rc \in DataCells : g1[rc[1], rc[2]] = g2[rc[1], rc[2]]

C9_DecodeIgnoresFinder ==
  (stage = "decodedBoth" /\ SameData(gridA, gridB)) => outA = outB

C9_Witness ==
  /\ stage = "decodedBoth"
  /\ gridA # gridB
  /\ gridB[3, 4]
  /\ outA.status = "shown"
  /\ outA.box.text = <<65, 233, 54620, 128512>>
  /\ outA.box.corrected = 1
  /\ outB = outA

\* C7 (Spec): a Decode of a grid with a double-error chunk examines the
\* chunks in order, stops at the first such chunk, is rejected, and leaves
\* the result box as it was.
DoubleChunks(g) ==
  {i \in 0 .. 15 : decode_chunk_16(extract_codewords_from_grid(g)[i]).doubleError}
FirstOf(S) == CHOOSE i \in S : \A j \in S : i <= j

\* (The steps that leave the decoder's grid alone and change its status,
\* count or box are the Decode steps, and Reset steps on an empty grid.)
DecodeStep ==
  /\ UNCHANGED <<encVars, decGrid, userVars>>
  /\ <<decStatus, examined, resultBox>>' # <<decStatus, examined, resultBox>>

C7_AbortOnRejection ==
  [][DecodeStep
       => \A D \in {DoubleChunks(decGrid)} :
            D # {} => /\ decStatus' = "rejected"
                      /\ examined' = FirstOf(D) + 1
                      /\ resultBox' = resultBox]_vars

C7_Witness ==
  /\ decStatus = "rejected"
  /\ examined = 2
  /\ BlackData(decGrid) = {<<4, 4>>, <<4, 5>>, <<8, 5>>}
  /\ resultBox.shown
  /\ resultBox.corrected = 1

\* C10 as stated (SpecDamage): for any text, with one wrong bit in each chunk
\* of a set S and no other damage, the decode recovers the text and reports
\* exactly |S| corrected chunks.
DamagedChunks == {ch \in 0 .. 15 : DiffBits(ch) # {}}
OneBitPerChunk == \A ch \in 0 .. 15 : Cardinality(DiffBits(ch)) <= 1

C10_Original ==
  (stage = "decoded" /\ OneBitPerChunk)
    => (RecoveredText /\ resultBox.corrected = Cardinality(DamagedChunks))

\* C10 amended (SpecDamage): the same for every text without U+0000.
C10_PerChunkCorrection ==
  (stage = "decoded" /\ OneBitPerChunk /\ NoNul(entry))
    => (RecoveredText /\ resultBox.corrected = Cardinality(DamagedChunks))

C10_Witness ==
  /\ stage = "decoded"
  /\ NoNul(entry)
  /\ OneBitPerChunk
  /\ Cardinality(DamagedChunks) = 16
  /\ plan.stride = 1
  /\ RecoveredText
  /\ resultBox.corrected = 16

====
